---- MODULE Spec2Model ----
(***************************************************************************)
(* A model of three streaming indicators of ta-rs:                         *)
(*   DoubleExponentialMovingAverage (DEMA), TripleExponentialAverage       *)
(*   (TRIX) and VolumeWeightedAveragePrice (VWAP).                         *)
(*                                                                         *)
(* f64 values are modelled as extended rationals <<n, d>>:                 *)
(*   d > 0  : the finite value n/d, in lowest terms;                       *)
(*   <<1,0>>, <<-1,0>> : +infinity, -infinity;   <<0,0>> : NaN.            *)
(* The finite inputs of the model are dyadic and the smoothing             *)
(* coefficients of the modelled periods (1 and 3) are 1 and 1/2, so every  *)
(* sum and product stored in an indicator's state is exact in f64 within   *)
(* the model's bounds.  Only a returned quotient may be rounded by f64;    *)
(* the model keeps the exact quotient.  The sign of zero is not modelled:  *)
(* no input is -0.0, and no stored sum of the model can become -0.0.       *)
(* Equality of two values is identity of the f64 value (NaN equals NaN).   *)
(***************************************************************************)
EXTENDS Integers, Sequences, FiniteSets, TLC

\* obj     the indicator instance in use (NoObj before construction or after a
\*         failed constructor); ExponentialMovingAverage, which DEMA and TRIX
\*         own, is not among the modelled sources and follows its documented
\*         contract (seed with the first input, then k*x + (1-k)*current)
\* pre     obj before the last call
\* last    the last call: operation, arguments, returned value, branch taken
\* hist    inputs fed since construction or the last reset;  outs: the outputs
\* h0, o0  inputs and outputs of the first epoch (before the first reset)
\* nwarm   next calls of the current epoch that took the is_new branch
\* ncalls, nresets   next and reset calls made so far
VARIABLES obj, pre, last, hist, outs, h0, o0, nwarm, ncalls, nresets

vars == <<obj, pre, last, hist, outs, h0, o0, nwarm, ncalls, nresets>>

\* ------------------------------------------------------------------ bounds
MaxCalls == 4
MaxBars == 3
MaxResets == 2

\* ------------------------------------------------------------ f64 values
NaN == <<0, 0>>
PosInf == <<1, 0>>
NegInf == <<-1, 0>>
Zero == <<0, 1>>
One == <<1, 1>>
Two == <<2, 1>>
Three == <<3, 1>>
Hundred == <<100, 1>>

Abs(i) == IF i < 0 THEN -i ELSE i

Sgn(i) == IF i < 0 THEN -1 ELSE IF i > 0 THEN 1 ELSE 0

RECURSIVE GCD(_, _)
GCD(a, b) == IF b = 0 THEN a ELSE GCD(b, a % b)

Norm(n, d) == LET g == GCD(Abs(n), d) IN <<n \div g, d \div g>>

IsNaN(a) == a = NaN

IsInf(a) == a[2] = 0 /\ a[1] # 0

IsFinite(a) == a[2] > 0

FNeg(a) == <<-a[1], a[2]>>

FAbs(a) == <<Abs(a[1]), a[2]>>

FAdd(a, b) ==
    IF IsNaN(a) \/ IsNaN(b) THEN NaN
    ELSE IF IsInf(a) /\ IsInf(b) THEN (IF a = b THEN a ELSE NaN)
    ELSE IF IsInf(a) THEN a
    ELSE IF IsInf(b) THEN b
    ELSE LET l == (a[2] \div GCD(a[2], b[2])) * b[2]
         IN Norm(a[1] * (l \div a[2]) + b[1] * (l \div b[2]), l)

FSub(a, b) == FAdd(a, FNeg(b))

FMul(a, b) ==
    IF IsNaN(a) \/ IsNaN(b) THEN NaN
    ELSE IF IsInf(a) \/ IsInf(b)
         THEN (IF a[1] = 0 \/ b[1] = 0 THEN NaN ELSE <<Sgn(a[1]) * Sgn(b[1]), 0>>)
    ELSE Norm(a[1] * b[1], a[2] * b[2])

FDiv(a, b) ==
    IF IsNaN(a) \/ IsNaN(b) THEN NaN
    ELSE IF IsInf(a) THEN (IF IsInf(b) THEN NaN
                           ELSE <<Sgn(a[1]) * (IF b[1] < 0 THEN -1 ELSE 1), 0>>)
    ELSE IF IsInf(b) THEN Zero
    ELSE IF b[1] = 0 THEN (IF a[1] = 0 THEN NaN ELSE <<Sgn(a[1]), 0>>)
    ELSE Norm(a[1] * b[2] * Sgn(b[1]), a[2] * Abs(b[1]))

\* a < b of f64: false whenever an operand is NaN
FLt(a, b) ==
    IF IsNaN(a) \/ IsNaN(b) THEN FALSE
    ELSE IF a = b THEN FALSE
    ELSE IF a = NegInf \/ b = PosInf THEN TRUE
    ELSE IF a = PosInf \/ b = NegInf THEN FALSE
    ELSE a[1] * b[2] < b[1] * a[2]

\* usize as f64
FromInt(i) == <<i, 1>>

\* --------------------------------------------------- ExponentialMovingAverage
Ok(v) == [tag |-> "Ok", v |-> v]

Err(e) == [tag |-> "Err", v |-> e]

Panic == [tag |-> "Panic", v |-> "unwrap"]

Ema_new(period) ==
    IF period = 0 THEN Err("InvalidParameter")
    ELSE Ok([period |-> period,
             k |-> FDiv(Two, FromInt(period + 1)),
             current |-> Zero,
             is_new |-> TRUE])

Ema_next(self, input) ==
    LET cur == IF self.is_new THEN input
               ELSE FAdd(FMul(self.k, input), FMul(FSub(One, self.k), self.current))
    IN [self |-> [self EXCEPT !.is_new = FALSE, !.current = cur], ret |-> cur]

Ema_reset(self) == [self EXCEPT !.current = Zero, !.is_new = TRUE]

\* --------------------------------------------- DoubleExponentialMovingAverage
\* variant: the match also rejects period 1
Dema_new_rejects_one(period) ==
    IF period <= 1 THEN Err("InvalidParameter")
    ELSE Ok([kind |-> "DEMA",
             period |-> period,
             current |-> Zero,
             is_new |-> TRUE,
             ema |-> Ema_new(period).v,
             ema2 |-> Ema_new(period).v])

Dema_new(period) ==
    IF period = 0 THEN Err("InvalidParameter")
    ELSE LET e1 == Ema_new(period)
             e2 == Ema_new(period)
         IN IF e1.tag # "Ok" \/ e2.tag # "Ok" THEN Panic
            ELSE Ok([kind |-> "DEMA",
                     period |-> period,
                     current |-> Zero,
                     is_new |-> TRUE,
                     ema |-> e1.v,
                     ema2 |-> e2.v])

\* variant: the second smoother is fed the raw input
Dema_next_raw_into_ema2(self, input) ==
    LET r1 == Ema_next(self.ema, input)
        ema_value == r1.ret
        r2 == Ema_next(self.ema2, input)
        ema_2_value == r2.ret
        cur == IF self.is_new THEN ema_2_value
               ELSE FSub(FMul(Two, ema_value), ema_2_value)
    IN [self |-> [self EXCEPT !.is_new = FALSE,
                              !.current = cur,
                              !.ema = r1.self,
                              !.ema2 = r2.self],
        ret |-> cur,
        warm |-> self.is_new]

\* warm: the call took the is_new branch
Dema_next(self, input) ==
    LET r1 == Ema_next(self.ema, input)
        ema_value == r1.ret
        r2 == Ema_next(self.ema2, ema_value)
        ema_2_value == r2.ret
        cur == IF self.is_new THEN ema_2_value
               ELSE FSub(FMul(Two, ema_value), ema_2_value)
    IN [self |-> [self EXCEPT !.is_new = FALSE,
                              !.current = cur,
                              !.ema = r1.self,
                              !.ema2 = r2.self],
        ret |-> cur,
        warm |-> self.is_new]

\* variant: the second smoother is not reset
Dema_reset_skips_ema2(self) ==
    [self EXCEPT !.current = Zero,
                 !.is_new = TRUE,
                 !.ema = Ema_reset(self.ema)]

\* variant: current is set from the second smoother before that is reset
Dema_reset_stale_current(self) ==
    [self EXCEPT !.current = self.ema2.current,
                 !.is_new = TRUE,
                 !.ema = Ema_reset(self.ema),
                 !.ema2 = Ema_reset(self.ema2)]

Dema_reset(self) ==
    [self EXCEPT !.current = Zero,
                 !.is_new = TRUE,
                 !.ema = Ema_reset(self.ema),
                 !.ema2 = Ema_reset(self.ema2)]

\* --------------------------------------------------- TripleExponentialAverage
Trix_new(period) ==
    IF period = 0 THEN Err("InvalidParameter")
    ELSE LET e1 == Ema_new(period)
             e2 == Ema_new(period)
             e3 == Ema_new(period)
         IN IF e1.tag # "Ok" \/ e2.tag # "Ok" \/ e3.tag # "Ok" THEN Panic
            ELSE Ok([kind |-> "TRIX",
                     period |-> period,
                     current_em_3_value |-> Zero,
                     is_new |-> TRUE,
                     ema |-> e1.v,
                     ema2 |-> e2.v,
                     ema3 |-> e3.v])

\* variant: the baseline is stored on the first call only
Trix_next_stale_baseline(self, input) ==
    LET r1 == Ema_next(self.ema, input)
        r2 == Ema_next(self.ema2, r1.ret)
        r3 == Ema_next(self.ema3, r2.ret)
        ema_3_value == r3.ret
        trix == IF self.is_new THEN Zero
                ELSE FMul(FDiv(FSub(ema_3_value, self.current_em_3_value),
                               self.current_em_3_value),
                          Hundred)
    IN [self |-> [self EXCEPT !.is_new = FALSE,
                              !.current_em_3_value =
                                  IF self.is_new THEN ema_3_value ELSE @,
                              !.ema = r1.self,
                              !.ema2 = r2.self,
                              !.ema3 = r3.self],
        ret |-> trix,
        warm |-> self.is_new]

\* variant: the warm-up flag is never cleared
Trix_next_keeps_flag(self, input) ==
    LET r1 == Ema_next(self.ema, input)
        r2 == Ema_next(self.ema2, r1.ret)
        r3 == Ema_next(self.ema3, r2.ret)
        ema_3_value == r3.ret
        trix == IF self.is_new THEN Zero
                ELSE FMul(FDiv(FSub(ema_3_value, self.current_em_3_value),
                               self.current_em_3_value),
                          Hundred)
    IN [self |-> [self EXCEPT !.current_em_3_value = ema_3_value,
                              !.ema = r1.self,
                              !.ema2 = r2.self,
                              !.ema3 = r3.self],
        ret |-> trix,
        warm |-> self.is_new]

\* variant: a zero baseline is guarded and gives 0
Trix_next_guarded(self, input) ==
    LET r1 == Ema_next(self.ema, input)
        r2 == Ema_next(self.ema2, r1.ret)
        r3 == Ema_next(self.ema3, r2.ret)
        ema_3_value == r3.ret
        trix == IF self.is_new \/ self.current_em_3_value = Zero THEN Zero
                ELSE FMul(FDiv(FSub(ema_3_value, self.current_em_3_value),
                               self.current_em_3_value),
                          Hundred)
    IN [self |-> [self EXCEPT !.is_new = FALSE,
                              !.current_em_3_value = ema_3_value,
                              !.ema = r1.self,
                              !.ema2 = r2.self,
                              !.ema3 = r3.self],
        ret |-> trix,
        warm |-> self.is_new]

Trix_next(self, input) ==
    LET r1 == Ema_next(self.ema, input)
        ema_value == r1.ret
        r2 == Ema_next(self.ema2, ema_value)
        ema_2_value == r2.ret
        r3 == Ema_next(self.ema3, ema_2_value)
        ema_3_value == r3.ret
        trix == IF self.is_new THEN Zero
                ELSE FMul(FDiv(FSub(ema_3_value, self.current_em_3_value),
                               self.current_em_3_value),
                          Hundred)
    IN [self |-> [self EXCEPT !.is_new = FALSE,
                              !.current_em_3_value = ema_3_value,
                              !.ema = r1.self,
                              !.ema2 = r2.self,
                              !.ema3 = r3.self],
        ret |-> trix,
        warm |-> self.is_new]

\* variant: the warm-up flag is not set again
Trix_reset_keeps_flag(self) ==
    [self EXCEPT !.current_em_3_value = Zero,
                 !.ema = Ema_reset(self.ema),
                 !.ema2 = Ema_reset(self.ema2),
                 !.ema3 = Ema_reset(self.ema3)]

Trix_reset(self) ==
    [self EXCEPT !.current_em_3_value = Zero,
                 !.is_new = TRUE,
                 !.ema = Ema_reset(self.ema),
                 !.ema2 = Ema_reset(self.ema2),
                 !.ema3 = Ema_reset(self.ema3)]

\* ------------------------------------------------- VolumeWeightedAveragePrice
\* the literal 0.0001 of the volume guard
Tolerance == <<1, 10000>>

Vwap_new ==
    [kind |-> "VWAP",
     accumulated_price_volume |-> Zero,
     accumulated_volume |-> Zero]

TypicalPrice(input) == FDiv(FAdd(FAdd(input.high, input.low), input.close), Three)

\* variant: the guard compares the signed accumulated volume
Vwap_next_no_abs(self, input) ==
    LET pv == FMul(TypicalPrice(input), input.volume)
        apv == FAdd(self.accumulated_price_volume, pv)
        av == FAdd(self.accumulated_volume, input.volume)
        guarded == FLt(av, Tolerance)
    IN [self |-> [self EXCEPT !.accumulated_price_volume = apv,
                              !.accumulated_volume = av],
        ret |-> IF guarded THEN apv ELSE FDiv(apv, av),
        warm |-> guarded]

\* variant: the typical price is accumulated without its volume
Vwap_next_unweighted(self, input) ==
    LET pv == TypicalPrice(input)
        apv == FAdd(self.accumulated_price_volume, pv)
        av == FAdd(self.accumulated_volume, input.volume)
        guarded == FLt(FAbs(av), Tolerance)
    IN [self |-> [self EXCEPT !.accumulated_price_volume = apv,
                              !.accumulated_volume = av],
        ret |-> IF guarded THEN apv ELSE FDiv(apv, av),
        warm |-> guarded]

\* guarded: the call returned from inside the |accumulated_volume| < 0.0001 branch
Vwap_next(self, input) ==
    LET pv == FMul(TypicalPrice(input), input.volume)
        apv == FAdd(self.accumulated_price_volume, pv)
        av == FAdd(self.accumulated_volume, input.volume)
        guarded == FLt(FAbs(av), Tolerance)
    IN [self |-> [self EXCEPT !.accumulated_price_volume = apv,
                              !.accumulated_volume = av],
        ret |-> IF guarded THEN apv ELSE FDiv(apv, av),
        warm |-> guarded]

Vwap_reset(self) ==
    [self EXCEPT !.accumulated_price_volume = Zero,
                 !.accumulated_volume = Zero]

\* ------------------------------------------------------------------ inputs
\* periods passed to the constructors: 0 is rejected, 1 and 3 give the
\* coefficients 1 and 1/2
Periods == {0, 1, 3}

\* scalar inputs: 0, 1, 2, 5, 6.25 and NaN
Inputs == {Zero, One, Two, <<5, 1>>, <<25, 4>>, NaN}

Bar(h, l, c, v) == [high |-> h, low |-> l, close |-> c, volume |-> v]

\* bars with typical price 2 or 4 and a volume of 1, -1, 0 or 2^-14 (below the
\* guard's 0.0001, twice it is above), and a bar whose high is NaN
Bars ==
    { Bar(Three, One, Two, One),
      Bar(Three, One, Two, <<-1, 1>>),
      Bar(<<5, 1>>, Three, <<4, 1>>, Zero),
      Bar(<<5, 1>>, Three, <<4, 1>>, <<1, 16384>>),
      Bar(NaN, One, Two, One) }

NoBar == Bar(Zero, Zero, Zero, Zero)

NoObj == [kind |-> "none"]

Call(op, p, x, bar, ret, res, warm) ==
    [op |-> op, p |-> p, x |-> x, bar |-> bar, ret |-> ret, res |-> res, warm |-> warm]

\* ------------------------------------------------------------ state machine
Init ==
    /\ obj = NoObj
    /\ pre = NoObj
    /\ last = Call("init", 0, Zero, NoBar, Zero, "none", FALSE)
    /\ hist = << >>
    /\ outs = << >>
    /\ h0 = << >>
    /\ o0 = << >>
    /\ nwarm = 0
    /\ ncalls = 0
    /\ nresets = 0

\* a constructor call; an Err or a panic leaves no instance
Construct(op, p, r) ==
    /\ obj.kind = "none"
    /\ last.op = "init"
    /\ pre' = obj
    /\ obj' = IF r.tag = "Ok" THEN r.v ELSE NoObj
    /\ last' = Call(op, p, Zero, NoBar, Zero, r.tag, FALSE)
    /\ UNCHANGED <<hist, outs, h0, o0, nwarm, ncalls, nresets>>

CallDemaNew(p) == Construct("dema_new", p, Dema_new(p))

CallTrixNew(p) == Construct("trix_new", p, Trix_new(p))

CallVwapNew == Construct("vwap_new", 0, Ok(Vwap_new))

\* a next call: r is the result of the indicator's next on the input
Feed(op, in, x, bar, r) ==
    /\ pre' = obj
    /\ obj' = r.self
    /\ last' = Call(op, 0, x, bar, r.ret, "none", r.warm)
    /\ hist' = Append(hist, in)
    /\ outs' = Append(outs, r.ret)
    /\ h0' = IF nresets = 0 THEN Append(h0, in) ELSE h0
    /\ o0' = IF nresets = 0 THEN Append(o0, r.ret) ELSE o0
    /\ nwarm' = IF r.warm THEN nwarm + 1 ELSE nwarm
    /\ ncalls' = ncalls + 1
    /\ UNCHANGED nresets

CallDemaNext(x) ==
    /\ obj.kind = "DEMA"
    /\ ncalls < MaxCalls
    /\ Feed("dema_next", x, x, NoBar, Dema_next(obj, x))

CallTrixNext(x) ==
    /\ obj.kind = "TRIX"
    /\ ncalls < MaxCalls
    /\ Feed("trix_next", x, x, NoBar, Trix_next(obj, x))

CallVwapNext(bar) ==
    /\ obj.kind = "VWAP"
    /\ ncalls < MaxBars
    /\ Feed("vwap_next", bar, Zero, bar, Vwap_next(obj, bar))

\* a reset call: s is the state the indicator's reset leaves
Clear(op, s) ==
    /\ nresets < MaxResets
    /\ pre' = obj
    /\ obj' = s
    /\ last' = Call(op, 0, Zero, NoBar, Zero, "none", FALSE)
    /\ hist' = << >>
    /\ outs' = << >>
    /\ nwarm' = 0
    /\ nresets' = nresets + 1
    /\ UNCHANGED <<h0, o0, ncalls>>

CallDemaReset ==
    /\ obj.kind = "DEMA"
    /\ Clear("dema_reset", Dema_reset(obj))

CallTrixReset ==
    /\ obj.kind = "TRIX"
    /\ Clear("trix_reset", Trix_reset(obj))

CallVwapReset ==
    /\ obj.kind = "VWAP"
    /\ Clear("vwap_reset", Vwap_reset(obj))

Next ==
    \/ \E p \in Periods : CallDemaNew(p)
    \/ \E p \in Periods : CallTrixNew(p)
    \/ CallVwapNew
    \/ \E x \in Inputs : CallDemaNext(x)
    \/ \E x \in Inputs : CallTrixNext(x)
    \/ \E bar \in Bars : CallVwapNext(bar)
    \/ CallDemaReset
    \/ CallTrixReset
    \/ CallVwapReset

Spec == Init /\ [][Next]_vars

\* ------------------------------------------------ smoothers driven by hand
\* the outputs of a freshly constructed smoother fed seq, one call per element
RECURSIVE EmaDrive(_, _, _)
EmaDrive(e, seq, i) ==
    IF i > Len(seq) THEN << >>
    ELSE LET r == Ema_next(e, seq[i])
         IN <<r.ret>> \o EmaDrive(r.self, seq, i + 1)

EmaOut(period, seq) == EmaDrive(Ema_new(period).v, seq, 1)

\* smoother 1 gets the raw input, smoother 2 only smoother 1's output
DemaByHand(period, seq) ==
    LET e1 == EmaOut(period, seq)
        e2 == EmaOut(period, e1)
    IN [i \in 1..Len(seq) |->
           IF i = 1 THEN e2[1] ELSE FSub(FMul(Two, e1[i]), e2[i])]

\* the third smoother's outputs when smoother 3 gets only smoother 2's output
Ema3ByHand(period, seq) == EmaOut(period, EmaOut(period, EmaOut(period, seq)))

RECURSIVE SumPV(_)
SumPV(bars) ==
    IF Len(bars) = 0 THEN Zero
    ELSE FAdd(SumPV(SubSeq(bars, 1, Len(bars) - 1)),
              FMul(TypicalPrice(bars[Len(bars)]), bars[Len(bars)].volume))

RECURSIVE SumVol(_)
SumVol(bars) ==
    IF Len(bars) = 0 THEN Zero
    ELSE FAdd(SumVol(SubSeq(bars, 1, Len(bars) - 1)), bars[Len(bars)].volume)

NewOps == {"dema_new", "trix_new"}

NextOps == {"dema_next", "trix_next"}

ResetOps == {"dema_reset", "trix_reset", "vwap_reset"}

Composite(o) == o.kind \in {"DEMA", "TRIX"}

\* ------------------------------------------------------------------ claims

\* C1: a DEMA that was fed its first sequence and then reset answers a replay
\* of that sequence (any prefix of it) with the outputs the freshly constructed
\* instance gave for it.
C1_ResetReplaysFresh ==
    (/\ obj.kind = "DEMA"
     /\ nresets >= 1
     /\ Len(hist) <= Len(h0)
     /\ hist = SubSeq(h0, 1, Len(hist)))
    => outs = SubSeq(o0, 1, Len(hist))

C1_Witness ==
    /\ obj.kind = "DEMA"
    /\ obj.period = 3
    /\ nresets >= 1
    /\ Len(hist) = 2
    /\ hist = h0
    /\ outs = o0
    /\ outs[2] # hist[2]
    /\ outs[2] # outs[1]

\* C2: the first next call of a TRIX since construction or the last reset
\* returns exactly 0 whatever the input, and the stored baseline is then the
\* third smoother's output of that call.
C2_TrixFirstCallZero ==
    (obj.kind = "TRIX" /\ Len(hist) = 1)
    => /\ last.op = "trix_next"
       /\ last.ret = Zero
       /\ outs = <<Zero>>
       /\ obj.current_em_3_value = obj.ema3.current
       /\ obj.current_em_3_value = Ema3ByHand(obj.period, hist)[1]

C2_Witness ==
    /\ obj.kind = "TRIX"
    /\ nresets >= 1
    /\ Len(h0) >= 2
    /\ hist = << <<5, 1>> >>
    /\ last.ret = Zero
    /\ obj.current_em_3_value = <<5, 1>>

\* C3: new(0) of DEMA and of TRIX gives the InvalidParameter error and no
\* instance, new(p) with p >= 1 gives an instance of period p, and no next or
\* reset call ends in an error.
C3_ConstructorContract ==
    /\ (last.op \in NewOps /\ last.p = 0) => (last.res = "Err" /\ obj = NoObj)
    /\ (last.op \in NewOps /\ last.p >= 1)
       => /\ last.res = "Ok"
          /\ obj.kind = (IF last.op = "dema_new" THEN "DEMA" ELSE "TRIX")
          /\ obj.period = last.p
          /\ obj.is_new
    /\ (last.op \in NextOps \cup ResetOps) => (last.res \notin {"Err", "Panic"})
    /\ Composite(obj) => obj.period >= 1

C3_Witness ==
    /\ last.op = "dema_new"
    /\ last.p = 0
    /\ last.res = "Err"
    /\ obj = NoObj

\* C4: every output of DEMA is the value got by driving two smoothers of the
\* same period by hand: the second smoother's output on the first call, then
\* 2 * (first smoother's output) - (second smoother's output); period 3 and
\* inputs 2, 5, 1, 6.25 give 2, 4.25, 2, 5.125.
C4_DemaEqualsByHand ==
    obj.kind = "DEMA"
    => /\ outs = DemaByHand(obj.period, hist)
       /\ (Len(hist) >= 1 => obj.current = outs[Len(outs)])
       /\ (obj.period = 3 /\ hist = <<Two, <<5, 1>>, One, <<25, 4>> >>)
          => outs = <<Two, <<17, 4>>, Two, <<41, 8>> >>

C4_Witness ==
    /\ obj.kind = "DEMA"
    /\ obj.period = 3
    /\ hist = <<Two, <<5, 1>>, One, <<25, 4>> >>
    /\ outs = <<Two, <<17, 4>>, Two, <<41, 8>> >>

\* C5: on every TRIX call after the first of an epoch the output is
\* ((e3 - b) / b) * 100 with e3 the third smoother's output of this call and b
\* its output of the call before, and after every call the stored baseline is
\* that call's third-smoother output (period 3, inputs 2, 5 give 0, 18.75).
C5_TrixRateOfChange ==
    (obj.kind = "TRIX" /\ Len(hist) >= 1)
    => LET e3 == Ema3ByHand(obj.period, hist)
       IN /\ obj.current_em_3_value = e3[Len(hist)]
          /\ \A i \in 2..Len(hist) :
                outs[i] = FMul(FDiv(FSub(e3[i], e3[i - 1]), e3[i - 1]), Hundred)
          /\ (obj.period = 3 /\ hist = <<Two, <<5, 1>> >>) => outs[2] = <<75, 4>>

C5_Witness ==
    /\ obj.kind = "TRIX"
    /\ obj.period = 3
    /\ nresets >= 1
    /\ Len(hist) = 3
    /\ IsFinite(outs[2]) /\ outs[2] # Zero
    /\ IsFinite(outs[3]) /\ outs[3] # Zero
    /\ outs[3] # outs[2]

\* C6: after any bars since construction or reset the two VWAP accumulators
\* are the sums of typical price * volume and of volume over those bars, and
\* the last call returned sum / volume, or the sum itself when the absolute
\* accumulated volume is below 0.0001.
C6_VwapAccumulates ==
    obj.kind = "VWAP"
    => /\ obj.accumulated_price_volume = SumPV(hist)
       /\ obj.accumulated_volume = SumVol(hist)
       /\ Len(hist) >= 1
          => /\ last.op = "vwap_next"
             /\ outs[Len(outs)] = last.ret
             /\ last.ret = IF FLt(FAbs(SumVol(hist)), Tolerance)
                           THEN SumPV(hist)
                           ELSE FDiv(SumPV(hist), SumVol(hist))

C6_Witness ==
    /\ obj.kind = "VWAP"
    /\ nresets >= 1
    /\ Len(hist) = 2
    /\ obj.accumulated_volume = <<-1, 1>>
    /\ obj.accumulated_price_volume = <<-2, 1>>
    /\ last.ret = Two

\* C7 as stated: a zero-volume bar makes next return the accumulated
\* price-volume sum, which the bar leaves unchanged.
C7_ZeroVolumeReturnsSum ==
    (last.op = "vwap_next" /\ last.bar.volume = Zero)
    => /\ last.ret = obj.accumulated_price_volume
       /\ obj.accumulated_price_volume = pre.accumulated_price_volume

\* C7 amended: a zero-volume bar of finite typical price leaves both
\* accumulators unchanged; next returns the sum only when the absolute
\* accumulated volume is below 0.0001, and sum / volume otherwise.
C7_ZeroVolumeKeepsRatio ==
    (/\ last.op = "vwap_next"
     /\ last.bar.volume = Zero
     /\ IsFinite(TypicalPrice(last.bar)))
    => /\ obj.accumulated_price_volume = pre.accumulated_price_volume
       /\ obj.accumulated_volume = pre.accumulated_volume
       /\ last.ret = IF FLt(FAbs(pre.accumulated_volume), Tolerance)
                     THEN pre.accumulated_price_volume
                     ELSE FDiv(pre.accumulated_price_volume, pre.accumulated_volume)

C7_Witness ==
    /\ last.op = "vwap_next"
    /\ last.bar.volume = Zero
    /\ ~last.warm
    /\ obj.accumulated_price_volume = <<4, 1>>
    /\ obj.accumulated_volume = Two
    /\ last.ret = Two

\* C8: the warm-up flag of a DEMA or TRIX is set on a fresh instance, every
\* next call leaves it cleared and takes the warm-up branch exactly when it
\* was set, only reset sets it again, and each epoch with a call has exactly
\* one call that took the warm-up branch.
C8_WarmUpOnce ==
    [][/\ (last'.op \in NewOps /\ last'.res = "Ok") => obj'.is_new
       /\ (last'.op \in NextOps /\ ncalls' = ncalls + 1)
          => /\ ~obj'.is_new
             /\ last'.warm <=> obj.is_new
       /\ (Composite(obj) /\ Composite(obj') /\ ~obj.is_new /\ obj'.is_new)
          => last'.op \in ResetOps /\ nresets' = nresets + 1
       /\ Composite(obj')
          => nwarm' = (IF Len(hist') = 0 THEN 0 ELSE 1)]_vars

C8_Witness ==
    /\ obj.kind = "TRIX"
    /\ nresets >= 1
    /\ Len(h0) >= 2
    /\ Len(hist) >= 2
    /\ ~obj.is_new
    /\ ~last.warm
    /\ nwarm = 1

\* C9: a reset right after a reset, and a reset right after construction,
\* leave the state (period and owned smoothers included) as it was, for DEMA,
\* TRIX and VWAP.
C9_ResetIdempotent ==
    [][(last'.op \in ResetOps /\ nresets' = nresets + 1)
       => /\ (last.op \in ResetOps) => obj' = obj
          /\ (last.op \in NewOps \cup {"vwap_new"})
             => /\ obj' = obj
                /\ Composite(obj)
                   => obj' = (IF obj.kind = "DEMA" THEN Dema_new(obj.period).v
                              ELSE Trix_new(obj.period).v)]_vars

C9_Witness ==
    /\ obj.kind = "DEMA"
    /\ last.op = "dema_reset"
    /\ nresets = 2
    /\ ncalls >= 2
    /\ pre = obj
    /\ obj = Dema_new(obj.period).v

\* C10: TRIX can be left with the warm-up flag cleared and a baseline of
\* exactly zero, and the next call then divides by that zero: its result is
\* ((e3 - 0) / 0) * 100, an infinity or NaN, not a guarded value.
C10_TrixDividesByZeroBaseline ==
    (/\ last.op = "trix_next"
     /\ ~pre.is_new
     /\ pre.current_em_3_value = Zero)
    => /\ last.ret = FMul(FDiv(FSub(obj.current_em_3_value, pre.current_em_3_value),
                               pre.current_em_3_value),
                          Hundred)
       /\ ~IsFinite(last.ret)

C10_Witness ==
    /\ last.op = "trix_next"
    /\ ~pre.is_new
    /\ pre.current_em_3_value = Zero
    /\ hist = <<Zero, <<5, 1>> >>
    /\ last.ret = PosInf

====
